---- MODULE Spec2Model ----
(***************************************************************************)
(* Model of the comic generation run of ESV43/comics.                      *)
(*                                                                         *)
(* The Generation Run Controller is App.handleComicGeneration              *)
(* (src/App.tsx); the scene acquisition and image acquisition services     *)
(* are the last revision held in src/services/geminiService.ts (lines      *)
(* 874-1251), which is the revision whose signatures App.tsx calls.        *)
(* Every await of the handler is a point where the model yields, so that   *)
(* user events (Dismiss, editing the API key) and network replies          *)
(* interleave with the run as they do in the browser.                      *)
(***************************************************************************)
EXTENDS Integers, Sequences, FiniteSets, TLC

VARIABLES
    \* React state of App (src/App.tsx:16-21)
    apiKey, comicPanels, isLoading, error, progress,
    \* closure state of the running handleComicGeneration (runKey is the
    \* apiKey argument it passes to the Gemini service functions)
    pc, options, runKey, scenePrompts, i,
    \* loop counters of the two services
    attempt, imgAttempt,
    \* requests in flight at the two backends
    textInFlight, imgInFlight,
    \* pending setTimeout callbacks of the finally block
    timers,
    \* observation of the current run (history, no effect on the program):
    \* handlers between their start and their finally block, the events of
    \* scene acquisition, the shape of the last reply, its console.error
    \* entries, the image calls that are open and settled, the image requests
    \* sent, whether the fallback panel was synthesized and whether the user
    \* dismissed the message
    activeRuns, textLog, lastReply, consoleLog, imgOpen, imgResolved, imgRejected, imgReqs,
    usedFallback, dismissed,
    \* the failure classes of the attempts of the image call that is open
    imgFailures,
    \* React state of StoryInputForm's character references: the list (by
    \* name), the name input, and the FileReader reads that have not completed
    \* (each with the name its handler captured)
    characters, newCharName, reads,
    \* React state of StoryInputForm's number-of-pages input
    numPages,
    \* the text of a backend's answer handed to extractJson (with the JSON
    \* array it was written around) and what extraction and JSON.parse made
    \* of it
    responseText, parsedJson

vars == << apiKey, comicPanels, isLoading, error, progress,
           pc, options, runKey, scenePrompts, i,
           attempt, imgAttempt, textInFlight, imgInFlight, timers,
           activeRuns, textLog, lastReply, consoleLog, imgOpen, imgResolved, imgRejected, imgReqs,
           usedFallback, dismissed, imgFailures,
           characters, newCharName, reads, numPages, responseText, parsedJson >>

\* the state of App and of the running handler
runVars == << apiKey, comicPanels, isLoading, error, progress,
              pc, options, runKey, scenePrompts, i,
              attempt, imgAttempt, textInFlight, imgInFlight, timers,
              activeRuns, textLog, lastReply, consoleLog, imgOpen, imgResolved, imgRejected,
              imgReqs, usedFallback, dismissed, imgFailures >>

\* the state of the form: its character-reference section and its
\* number-of-pages input
formVars == << characters, newCharName, reads, numPages >>

\* the answer under extraction
textVars == << responseText, parsedJson >>

----------------------------------------------------------------------------
(* Bounds of the model *)

\* longest scene array a backend reply carries
MaxScenes == 2

\* largest panel count for which the progress formula is evaluated on its own
MaxPanelCount == 8

\* most FileReader reads of the form in progress at a time
MaxReads == 2

\* the longest prose before and after the JSON array of an answer, in tokens
MaxProse == 1

----------------------------------------------------------------------------
(* Values *)

GEMINI == "Gemini"
POLLINATIONS == "Pollinations"
Services == {GEMINI, POLLINATIONS}

Null == "null"

MAX_COMIC_PAGES == 200
DEFAULT_NUM_PAGES == 6

\* the API key field: empty, whitespace only, or a key
ApiKeys == {"", " ", "key"}

\* String.prototype.trim on the values of ApiKeys
Trim(s) == IF s = " " THEN "" ELSE s

\* tokens of a prompt string; a prompt is the concatenation of its tokens
STORY == "<story>"
\* `, in the style of ${style}, ${era}`
StyleSuffix == "<, in the style of STYLE, ERA>"
\* `, cinematic still, in the distinct visual style of ${style}, inspired by the ${era} era.`
CinematicSuffix == "<, cinematic still, in the distinct visual style of STYLE, inspired by the ERA era.>"

FallbackCaption == "Fallback: Full Story"
FallbackDialogue == "Scene generation failed."

\* lines of the error state (error is the sequence of its newline-separated lines)
WarnFallback == [t |-> "warning_fallback", n |-> 0]
FatalScenes == [t |-> "fatal", n |-> 0]
PanelError(n) == [t |-> "panel_error", n |-> n]
\* "Please enter your Gemini API Key to generate comics with the Gemini service."
KeyRequired == [t |-> "key_required", n |-> 0]

NoProgress == [step |-> "undefined", num |-> 0, den |-> 1, currentPanel |-> 0, totalPanels |-> 0]

\* a scene record as parsed from a reply; scene_number 0 stands for a missing
\* or falsy value, NullScene for a JSON null element
RawRecords ==
    [scene_number : 0..MaxScenes, image_prompt : {<<"P">>}, caption : {"cap"},
     dialogues : {<<"d">>}, dialoguesIsArray : {TRUE}, isNull : {FALSE}]

NullScene ==
    [scene_number |-> 0, image_prompt |-> <<>>, caption |-> Null,
     dialogues |-> <<>>, dialoguesIsArray |-> FALSE, isNull |-> TRUE]

SceneArrays ==
    UNION { [1..n -> RawRecords \cup {NullScene}] : n \in 0..MaxScenes }

\* scene records of every caption and dialogues content: the caption a string
\* or null, `dialogues` an array (empty or not) or a value that is not an
\* array, the scene number missing or 1
CaptionedRecords ==
    [scene_number : {0, 1}, image_prompt : {<<"P">>}, caption : {"cap", Null},
     dialogues : {<<>>, <<"d">>}, dialoguesIsArray : BOOLEAN, isNull : {FALSE}]

CaptionedReplies ==
    { [kind |-> "array", scenes |-> s] :
        s \in UNION { [1..n -> CaptionedRecords] : n \in 1..MaxScenes } }

\* what a text backend can answer to one request
FailureKinds == {"transport", "http_error", "empty_text", "no_json", "bad_json", "non_array"}

Replies ==
    { [kind |-> k, scenes |-> <<>>] : k \in FailureKinds }
    \cup { [kind |-> k, scenes |-> s] : k \in {"array", "wrapped"}, s \in SceneArrays }

\* the shape of a reply: its kind, the length of its scene array and
\* whether the array holds a null element
Shape(reply) ==
    [kind |-> reply.kind, len |-> Len(reply.scenes),
     hasNull |-> \E k \in 1..Len(reply.scenes) : reply.scenes[k].isNull]

NoReply == [kind |-> "none", len |-> 0, hasNull |-> FALSE]

\* the fields of StoryInputOptions the model keeps, with the number of
\* character references for `characters`
AllOptionSets ==
    [generationService : Services, includeCaptions : BOOLEAN,
     characters : {0, 1}, lockSeed : BOOLEAN, numPages : {DEFAULT_NUM_PAGES}]

\* the requests without character references and without lockSeed
OptionSets == { o \in AllOptionSets : o.characters = 0 /\ ~o.lockSeed }

NoOptions ==
    [generationService |-> POLLINATIONS, includeCaptions |-> FALSE,
     characters |-> 0, lockSeed |-> FALSE, numPages |-> 0]

----------------------------------------------------------------------------
(* Scene acquisition, free-text variant: generateScenePromptsWithPollinations *)

maxRetries == 2

\* the loop condition `attempt <= maxRetries`
TextLoopContinues(a) == a <= maxRetries

NeedsDelayNever(a) == FALSE

\* `if (attempt > 0) { await delay(2000); }`
NeedsDelay(a) == a > 0

PollinationsPanelRenumbers(raw, index, opts) ==
    [scene_number |-> index,
     image_prompt |-> raw.image_prompt \o <<StyleSuffix>>,
     caption |-> IF opts.includeCaptions THEN raw.caption ELSE Null,
     dialogues |-> IF opts.includeCaptions /\ raw.dialoguesIsArray THEN raw.dialogues ELSE <<>>]

\* the body of parsedScenes.map of the free-text variant; index is index + 1
PollinationsPanel(raw, index, opts) ==
    [scene_number |-> IF raw.scene_number # 0 THEN raw.scene_number ELSE index,
     image_prompt |-> raw.image_prompt \o <<StyleSuffix>>,
     caption |-> IF opts.includeCaptions THEN raw.caption ELSE Null,
     dialogues |-> IF opts.includeCaptions /\ raw.dialoguesIsArray THEN raw.dialogues ELSE <<>>]

\* reading a property of a null element throws a TypeError inside map
MapThrows(scenes) == \E k \in 1..Len(scenes) : scenes[k].isNull

\* one pass through the try block for one reply:
\* [ok, panels] on return, [ok = FALSE, cls] when the block throws
PollinationsAttempt(reply, opts) ==
    CASE reply.kind = "transport" -> [ok |-> FALSE, cls |-> "transport", panels |-> <<>>]
      [] reply.kind = "http_error" -> [ok |-> FALSE, cls |-> "transport", panels |-> <<>>]
      [] reply.kind \in {"empty_text", "no_json", "bad_json"} ->
            [ok |-> FALSE, cls |-> "malformed", panels |-> <<>>]
      [] reply.kind \in {"non_array", "wrapped"} ->
            [ok |-> FALSE, cls |-> "malformed", panels |-> <<>>]
      [] reply.kind = "array" /\ Len(reply.scenes) = 0 ->
            [ok |-> FALSE, cls |-> "malformed", panels |-> <<>>]
      [] reply.kind = "array" /\ MapThrows(reply.scenes) ->
            [ok |-> FALSE, cls |-> "malformed", panels |-> <<>>]
      [] OTHER ->
            [ok |-> TRUE, cls |-> "ok",
             panels |-> [k \in 1..Len(reply.scenes) |-> PollinationsPanel(reply.scenes[k], k, opts)]]

TextExhaustedThrows == "throw"

\* after the loop: `return [];`
TextExhausted == "return_empty"

----------------------------------------------------------------------------
(* Scene acquisition, structured variant: generateScenePrompts *)

GeminiPanelKeepsCaption(raw, index, opts) ==
    [scene_number |-> IF raw.scene_number # 0 THEN raw.scene_number ELSE index,
     image_prompt |-> raw.image_prompt,
     caption |-> raw.caption,
     dialogues |-> IF raw.dialoguesIsArray THEN raw.dialogues ELSE <<>>]

\* the body of scenes.map of the structured variant
GeminiPanel(raw, index, opts) ==
    [scene_number |-> IF raw.scene_number # 0 THEN raw.scene_number ELSE index,
     image_prompt |-> raw.image_prompt,
     caption |-> IF opts.includeCaptions THEN raw.caption ELSE Null,
     dialogues |-> IF opts.includeCaptions /\ raw.dialoguesIsArray THEN raw.dialogues ELSE <<>>]

GeminiScenesReturnsEmpty(reply, opts) ==
    IF reply.kind \in {"array", "wrapped"} /\ Len(reply.scenes) > 0 /\ ~MapThrows(reply.scenes)
    THEN [ok |-> TRUE,
          panels |-> [k \in 1..Len(reply.scenes) |-> GeminiPanel(reply.scenes[k], k, opts)]]
    ELSE [ok |-> TRUE, panels |-> <<>>]

\* the try block and its catch: every failure is rethrown as an Error
GeminiScenes(reply, opts) ==
    CASE reply.kind \in {"transport", "http_error"} -> [ok |-> FALSE, panels |-> <<>>]
      [] reply.kind = "empty_text" -> [ok |-> FALSE, panels |-> <<>>]
      [] reply.kind = "no_json" -> [ok |-> FALSE, panels |-> <<>>]
      [] reply.kind \in {"bad_json", "non_array"} -> [ok |-> FALSE, panels |-> <<>>]
      [] Len(reply.scenes) = 0 -> [ok |-> FALSE, panels |-> <<>>]
      [] MapThrows(reply.scenes) -> [ok |-> FALSE, panels |-> <<>>]
      [] OTHER ->
            [ok |-> TRUE,
             panels |-> [k \in 1..Len(reply.scenes) |-> GeminiPanel(reply.scenes[k], k, opts)]]

----------------------------------------------------------------------------
(* Image acquisition *)

\* the character references of a request of n references, by name
ReferenceNames(n) == { <<"Zoe", "Mark", "Ilsa">>[k] : k \in 1..n }

\* the character references an image request carries: neither image function
\* has a parameter for them and the handler passes none
RequestReferences(svc, prompt, n) == {}

\* generateImageForPrompt: `const maxRetries = 2` and `attempt < maxRetries`
imgMaxRetries == 2

ImgLoopContinues(a) == a < imgMaxRetries

\* what the image backend can answer instead of an image: rate limit or
\* resource exhausted, internal server error, safety-policy block,
\* authentication or permission error
ImageFailures == {"rate_limit", "server_error", "safety_block", "auth_error"}

ImageOutcomes == {"ok"} \cup ImageFailures

\* an image, or an internal server error
BasicOutcomes == {"ok", "server_error"}

\* the catch block of generateImageForPrompt after the failed attempt a: it
\* does not look at the error, and delays when `attempt < maxRetries - 1`
RetriesImage(cls, a) == ImgLoopContinues(a + 1)

\* `delay(2000 * (attempt + 1))` after the failed attempt a, in ms
ImgRetryDelay(a) == 2000 * (a + 1)

FIXED_IMAGE_SEED == 42

\* no seed parameter in the request: the backend picks one
NoSeed == <<>>

RequestSeedGeminiOnly(svc) == IF svc = GEMINI THEN <<FIXED_IMAGE_SEED>> ELSE NoSeed

\* the seed parameter of an image request: `seed: FIXED_IMAGE_SEED` of
\* generateImageForPrompt, `params.append('seed', String(FIXED_IMAGE_SEED))`
\* of generateImageForPromptWithPollinations
RequestSeed(svc) == <<FIXED_IMAGE_SEED>>

\* the prompt sent by generateImageForPrompt
AugmentedPrompt(prompt) == prompt \o <<CinematicSuffix>>

SentPromptAlwaysAugments(svc, prompt) == AugmentedPrompt(prompt)

\* the prompt sent in a request of the run's image backend
SentPrompt(svc, prompt) == IF svc = GEMINI THEN AugmentedPrompt(prompt) ELSE prompt

----------------------------------------------------------------------------
(* The controller: handleComicGeneration *)

KeyMissing(svc, key) == svc = GEMINI /\ Trim(key) = ""

isSubmitDisabledIgnoresLoading(svc) == svc = GEMINI /\ Trim(apiKey) = ""

\* StoryInputForm: the submit button's disabled attribute
isSubmitDisabled(svc) == isLoading \/ (svc = GEMINI /\ Trim(apiKey) = "")

NeedsFallbackBelowTwo(scenes) == Len(scenes) < 2

NeedsFallbackAfterFailure(scenes) == Len(scenes) = 0 \/ attempt > 0

\* `!scenePrompts || scenePrompts.length === 0`
NeedsFallback(scenes) == Len(scenes) = 0

FallbackPanelNoSuffix(opts) ==
    [scene_number |-> 1, image_prompt |-> <<STORY>>,
     caption |-> FallbackCaption, dialogues |-> <<FallbackDialogue>>]

\* the single panel synthesized from the story
FallbackPanel(opts) ==
    [scene_number |-> 1, image_prompt |-> <<STORY, StyleSuffix>>,
     caption |-> FallbackCaption, dialogues |-> <<FallbackDialogue>>]

\* scenePrompts.map(p => ({ ...p, imageUrl: undefined }))
InitialPanels(scenes) ==
    [k \in 1..Len(scenes) |->
        [scene_number |-> scenes[k].scene_number, image_prompt |-> scenes[k].image_prompt,
         caption |-> scenes[k].caption, dialogues |-> scenes[k].dialogues,
         imageUrl |-> "undefined"]]

SetImageUrlWithoutSpread(panels, n, url) ==
    [k \in 1..Len(panels) |->
        IF panels[k].scene_number = n
        THEN [scene_number |-> n, image_prompt |-> <<>>, caption |-> Null,
              dialogues |-> <<>>, imageUrl |-> url]
        ELSE panels[k]]

\* prevPanels.map(p => p.scene_number === n ? { ...p, imageUrl: url } : p)
SetImageUrl(panels, n, url) ==
    [k \in 1..Len(panels) |->
        IF panels[k].scene_number = n THEN [panels[k] EXCEPT !.imageUrl = url] ELSE panels[k]]

\* prevError ? `${prevError}\n${panelErrMessage}` : panelErrMessage
AppendError(prev, line) == Append(prev, line)

PanelProgressZeroBased(idx, total) ==
    [step |-> "panel", num |-> 10 * total + idx * 90, den |-> total,
     currentPanel |-> idx, totalPanels |-> total]

\* 10 + ((i + 1) / totalPanels) * 90, as the fraction num / den
PanelProgress(idx, total) ==
    [step |-> "panel", num |-> 10 * total + (idx + 1) * 90, den |-> total,
     currentPanel |-> idx + 1, totalPanels |-> total]

ImgStartBeforePanelsSet == pc \in {"img_loop", "scenes_returned"} /\ i < Len(scenePrompts)

ImgStartWithoutAwait == pc \in {"img_loop", "img_wait"} /\ i < Len(scenePrompts)

\* the loop `for (let i = 0; i < totalPanels; i++)` is entered after
\* setComicPanels and resumes only after the awaited image call has settled
ImgStartEnabled == pc = "img_loop" /\ i < Len(scenePrompts)

OnImageErrorRethrow == "rethrow"

\* the inner catch records the failure on the panel and lets the loop go on
OnImageError == "record"

----------------------------------------------------------------------------
(* JSON extraction: extractJson and JSON.parse *)

\* a text is a sequence of tokens: a word, the four bracket characters, the
\* opening fence ```json and the closing fence ```
FenceOpen == "<fence json>"
FenceClose == "<fence>"

ProseTokens == {"x", "[", "]", "{", "}"}

\* prose of up to MaxProse tokens
Prose == UNION { [1..n -> ProseTokens] : n \in 0..MaxProse }

\* well-formed JSON arrays
JsonArrays == { <<"[", "]">>, <<"[", "x", "]">>, <<"[", "{", "x", "}", "]">> }

\* texts with no opening bracket or brace
PlainTexts == UNION { [1..n -> {"x", "]", "}"}] : n \in 0..(MaxProse + 1) }

\* an answer: prose, a JSON array (fenced or bare), prose; `json` is empty for
\* an answer that is plain text
Answers ==
    [before : Prose, json : JsonArrays, fenced : BOOLEAN, after : Prose]
    \cup [before : PlainTexts, json : {<<>>}, fenced : {FALSE}, after : {<<>>}]

NoText == [before |-> <<>>, json |-> <<>>, fenced |-> FALSE, after |-> <<"none">>]

\* the text of an answer
TextOf(r) ==
    IF r.fenced
    THEN r.before \o <<FenceOpen>> \o r.json \o <<FenceClose>> \o r.after
    ELSE r.before \o r.json \o r.after

Min(a, b) == IF a <= b THEN a ELSE b
Max(a, b) == IF a >= b THEN a ELSE b

\* String.prototype.indexOf and lastIndexOf, positions from 1 and 0 for -1
IndexOf(text, c) ==
    IF \E k \in 1..Len(text) : text[k] = c
    THEN CHOOSE k \in 1..Len(text) : text[k] = c /\ \A j \in 1..(k - 1) : text[j] # c
    ELSE 0

LastIndexOf(text, c) ==
    IF \E k \in 1..Len(text) : text[k] = c
    THEN CHOOSE k \in 1..Len(text) : text[k] = c /\ \A j \in (k + 1)..Len(text) : text[j] # c
    ELSE 0

\* the closing ``` of the pattern also matches the first characters of ```json
ClosesFence(tok) == tok \in {FenceClose, FenceOpen}

\* text.match(/```json\s*([\s\S]*?)\s*```/): the capture group of the leftmost
\* match, the shortest from its start; <<>> when nothing matches or the group
\* is empty
MarkdownMatch(text) ==
    LET opens == { p \in 1..Len(text) :
                     text[p] = FenceOpen /\ \E q \in (p + 1)..Len(text) : ClosesFence(text[q]) }
    IN IF opens = {} THEN <<>>
       ELSE LET p == CHOOSE a \in opens : \A b \in opens : a <= b
                q == CHOOSE a \in (p + 1)..Len(text) :
                        ClosesFence(text[a]) /\ \A b \in (p + 1)..(a - 1) : ~ClosesFence(text[b])
            IN SubSeq(text, p + 1, q - 1)

\* extractJson: the fenced content, or else the text from the first `{` or `[`
\* to the last `}` or `]`; Null for null
extractJson(text) ==
    IF Len(text) = 0 THEN Null
    ELSE IF MarkdownMatch(text) # <<>> THEN MarkdownMatch(text)
    ELSE LET firstBracket == IndexOf(text, "{")
             firstSquare == IndexOf(text, "[")
             start == IF firstBracket = 0 THEN firstSquare
                      ELSE IF firstSquare = 0 THEN firstBracket
                      ELSE Min(firstBracket, firstSquare)
             lastBracket == LastIndexOf(text, "}")
             lastSquare == LastIndexOf(text, "]")
             end == Max(lastBracket, lastSquare)
         IN IF start = 0 THEN Null
            ELSE IF end = 0 \/ end < start THEN Null
            ELSE SubSeq(text, start, end)

Closer(tok) == IF tok = "[" THEN "]" ELSE "}"

\* the tokens of s from position k on close the brackets of `open` (innermost
\* first) with the last token of s and not before
RECURSIVE Nests(_, _, _)
Nests(s, k, open) ==
    IF k > Len(s) THEN open = <<>>
    ELSE IF open = <<>> THEN FALSE
    ELSE IF s[k] \in {"[", "{"} THEN Nests(s, k + 1, <<s[k]>> \o open)
    ELSE IF s[k] \in {"]", "}"}
         THEN s[k] = Closer(Head(open)) /\ Nests(s, k + 1, Tail(open))
    ELSE s[k] = "x" /\ Nests(s, k + 1, open)

\* JSON.parse accepts s: one value, a word or a bracketed list of values
IsJson(s) ==
    \/ s = <<"x">>
    \/ Len(s) >= 2 /\ s[1] \in {"[", "{"} /\ Nests(s, 2, <<s[1]>>)

NotParsed == [t |-> "none", value |-> <<>>]

\* `extractJson(text)`, `if (!jsonString) throw`, `JSON.parse(jsonString)` as
\* the two variants run them
ExtractAndParse(text) ==
    LET jsonString == extractJson(text) IN
    IF jsonString = Null THEN [t |-> "null", value |-> <<>>]
    ELSE IF IsJson(jsonString) THEN [t |-> "parsed", value |-> jsonString]
    ELSE [t |-> "throws", value |-> <<>>]

----------------------------------------------------------------------------
(* The character references of StoryInputForm *)

\* `characters.length >= 5`
maxCharacters == 5

\* what is typed into the number-of-pages input
PageEntries == {"", "abc", "0", "-3", "1", "7", "2.5", "199", "201", "1000"}

NaN == [nan |-> TRUE, n |-> 0]
Number(n) == [nan |-> FALSE, n |-> n]

\* parseInt(e.target.value, 10) on PageEntries
ParseInt(str) ==
    CASE str \in {"", "abc"} -> NaN
      [] str = "0" -> Number(0)
      [] str = "-3" -> Number(-3)
      [] str = "1" -> Number(1)
      [] str = "7" -> Number(7)
      [] str = "2.5" -> Number(2)
      [] str = "199" -> Number(199)
      [] str = "201" -> Number(201)
      [] str = "1000" -> Number(1000)

\* `x || 1`: NaN and 0 are falsy
OrOne(x) == IF x.nan \/ x.n = 0 THEN 1 ELSE x.n

ClampPagesNoFloor(str) == Min(MAX_COMIC_PAGES, OrOne(ParseInt(str)))

\* Math.max(1, Math.min(MAX_COMIC_PAGES, parseInt(e.target.value, 10) || 1))
ClampPages(str) == Max(1, Min(MAX_COMIC_PAGES, OrOne(ParseInt(str))))

\* the names typed into the name input, and the input left empty or blank
CharNames == {"a", "A", "b", "c", "d", "e", "f"}

NameInputs == CharNames \cup {"", " "}

\* String.prototype.toLowerCase on the names and words of the model
ToLowerCase(s) ==
    CASE s = "A" -> "a"
      [] s \in {"Zoe", "ZOE"} -> "zoe"
      [] s = "Mark" -> "mark"
      [] s = "Ilsa" -> "ilsa"
      [] OTHER -> s

\* the file picked in the file input
FileKinds == {"image", "not_image", "too_large"}

EmptyReads == [n \in CharNames |-> 0]

RECURSIVE SumOver(_, _)
SumOver(f, S) ==
    IF S = {} THEN 0
    ELSE LET x == CHOOSE y \in S : TRUE IN f[x] + SumOver(f, S \ {x})

\* the number of reads that have not completed
PendingReads(r) == SumOver(r, CharNames)

\* characters.some(char => char.name.toLowerCase() === newCharName.trim().toLowerCase())
NameTaken(chars, name) ==
    \E k \in 1..Len(chars) : ToLowerCase(chars[k]) = ToLowerCase(Trim(name))

\* the add-character controls are rendered while `characters.length < 5`
AddControlsShown == Len(characters) < maxCharacters

\* handleCharImageUpload gets past its checks and calls reader.readAsDataURL
UploadAccepted(file) ==
    /\ Trim(newCharName) # ""
    /\ ~(Len(characters) >= maxCharacters)
    /\ ~NameTaken(characters, newCharName)
    /\ file = "image"

----------------------------------------------------------------------------
(* State machine *)

Init ==
    /\ apiKey = ""
    /\ comicPanels = <<>>
    /\ isLoading = FALSE
    /\ error = <<>>
    /\ progress = NoProgress
    /\ pc = "idle"
    /\ options = NoOptions
    /\ runKey = ""
    /\ scenePrompts = <<>>
    /\ i = 0
    /\ attempt = 0
    /\ imgAttempt = 0
    /\ textInFlight = 0
    /\ imgInFlight = 0
    /\ timers = 0
    /\ activeRuns = 0
    /\ textLog = <<>>
    /\ lastReply = NoReply
    /\ consoleLog = <<>>
    /\ imgOpen = {}
    /\ imgResolved = {}
    /\ imgRejected = {}
    /\ imgReqs = {}
    /\ usedFallback = FALSE
    /\ dismissed = FALSE
    /\ imgFailures = <<>>
    /\ characters = <<>>
    /\ newCharName = ""
    /\ reads = EmptyReads
    /\ numPages = DEFAULT_NUM_PAGES
    /\ responseText = NoText
    /\ parsedJson = NotParsed

\* the API key input's onChange
SetApiKey(k) ==
    /\ k # apiKey
    /\ apiKey' = k
    /\ UNCHANGED << comicPanels, isLoading, error, progress, pc, options, runKey,
                    scenePrompts, i, attempt, imgAttempt, textInFlight,
                    imgInFlight, timers, activeRuns, textLog, lastReply, consoleLog, imgOpen,
                    imgResolved, imgRejected, imgReqs, usedFallback, dismissed, imgFailures >>
    /\ UNCHANGED formVars
    /\ UNCHANGED textVars

\* the Dismiss button of the error container, rendered while error is truthy
Dismiss ==
    /\ error # <<>>
    /\ error' = <<>>
    /\ dismissed' = TRUE
    /\ UNCHANGED << apiKey, comicPanels, isLoading, progress, pc, options, runKey,
                    scenePrompts, i, attempt, imgAttempt, textInFlight,
                    imgInFlight, timers, activeRuns, textLog, lastReply, consoleLog, imgOpen,
                    imgResolved, imgRejected, imgReqs, usedFallback, imgFailures >>
    /\ UNCHANGED formVars
    /\ UNCHANGED textVars

SubmitRejectedAfterReset(opts) ==
    /\ ~isLoading
    /\ KeyMissing(opts.generationService, apiKey)
    /\ error' = <<KeyRequired>>
    /\ comicPanels' = <<>>
    /\ progress' = NoProgress
    /\ UNCHANGED << apiKey, isLoading, pc, options, runKey,
                    scenePrompts, i, attempt, imgAttempt, textInFlight,
                    imgInFlight, timers, activeRuns, textLog, lastReply, consoleLog, imgOpen,
                    imgResolved, imgRejected, imgReqs, usedFallback, dismissed, imgFailures >>
    /\ UNCHANGED formVars
    /\ UNCHANGED textVars

\* handleComicGeneration called, while nothing is loading, for the Gemini
\* service with no API key: the message is set and the handler returns
SubmitRejected(opts) ==
    /\ ~isLoading
    /\ KeyMissing(opts.generationService, apiKey)
    /\ error' = <<KeyRequired>>
    /\ UNCHANGED << apiKey, comicPanels, isLoading, progress, pc, options, runKey,
                    scenePrompts, i, attempt, imgAttempt, textInFlight,
                    imgInFlight, timers, activeRuns, textLog, lastReply, consoleLog, imgOpen,
                    imgResolved, imgRejected, imgReqs, usedFallback, dismissed, imgFailures >>
    /\ UNCHANGED formVars
    /\ UNCHANGED textVars

\* handleSubmit of the form calling handleComicGeneration, up to the first
\* await: the state is reset, progress 0% is published and the scene
\* acquisition of the selected service sends its first request
Submit(opts) ==
    /\ ~isSubmitDisabled(opts.generationService)
    /\ ~KeyMissing(opts.generationService, apiKey)
    /\ isLoading' = TRUE
    /\ error' = <<>>
    /\ comicPanels' = <<>>
    /\ progress' = [step |-> "analyzing", num |-> 0, den |-> 1,
                    currentPanel |-> 0, totalPanels |-> 0]
    /\ options' = opts
    /\ runKey' = IF opts.generationService = GEMINI THEN apiKey ELSE ""
    /\ scenePrompts' = <<>>
    /\ i' = 0
    /\ attempt' = 0
    /\ imgAttempt' = 0
    /\ activeRuns' = activeRuns + 1
    /\ consoleLog' = <<>>
    /\ lastReply' = NoReply
    /\ imgOpen' = {}
    /\ imgResolved' = {}
    /\ imgRejected' = {}
    /\ imgReqs' = {}
    /\ usedFallback' = FALSE
    /\ dismissed' = FALSE
    /\ IF opts.generationService = POLLINATIONS /\ NeedsDelay(0)
       THEN /\ pc' = "text_delay"
            /\ textLog' = <<>>
            /\ UNCHANGED textInFlight
       ELSE /\ pc' = "text_wait"
            /\ textLog' = <<"request">>
            /\ textInFlight' = textInFlight + 1
    /\ UNCHANGED << apiKey, imgInFlight, timers, imgFailures >>
    /\ UNCHANGED formVars
    /\ UNCHANGED textVars

\* the reply to the structured variant's single request
GeminiTextReply(reply) ==
    /\ pc = "text_wait"
    /\ options.generationService = GEMINI
    /\ lastReply' = Shape(reply)
    /\ textInFlight' = textInFlight - 1
    /\ LET out == GeminiScenes(reply, options) IN
         IF out.ok
         THEN /\ scenePrompts' = out.panels
              /\ pc' = "scenes_returned"
              /\ textLog' = Append(textLog, "ok")
              /\ UNCHANGED consoleLog
         ELSE /\ pc' = "scenes_threw"
              /\ textLog' = Append(textLog, "failed")
              /\ consoleLog' = Append(consoleLog, "gemini_scenes_error")
              /\ UNCHANGED scenePrompts
    /\ UNCHANGED << apiKey, comicPanels, isLoading, error, progress, options, runKey,
                    i, attempt, imgAttempt, imgInFlight, timers, activeRuns, imgOpen,
                    imgResolved, imgRejected, imgReqs, usedFallback, dismissed, imgFailures >>
    /\ UNCHANGED formVars
    /\ UNCHANGED textVars

\* the reply to one request of the free-text variant: the try block, its
\* catch, and the loop up to the next await or the end of the function
PollinationsTextReply(reply) ==
    /\ pc = "text_wait"
    /\ options.generationService = POLLINATIONS
    /\ lastReply' = Shape(reply)
    /\ LET out == PollinationsAttempt(reply, options) IN
         IF out.ok
         THEN /\ scenePrompts' = out.panels
              /\ pc' = "scenes_returned"
              /\ textLog' = Append(textLog, "ok")
              /\ textInFlight' = textInFlight - 1
              /\ UNCHANGED << consoleLog, attempt >>
         ELSE /\ attempt' = attempt + 1
              /\ IF TextLoopContinues(attempt + 1)
                 THEN /\ consoleLog' = Append(consoleLog, "attempt_failed")
                      /\ UNCHANGED scenePrompts
                      /\ IF NeedsDelay(attempt + 1)
                         THEN /\ pc' = "text_delay"
                              /\ textLog' = Append(textLog, "failed")
                              /\ textInFlight' = textInFlight - 1
                         ELSE /\ pc' = "text_wait"
                              /\ textLog' = textLog \o <<"failed", "request">>
                              /\ UNCHANGED textInFlight
                 ELSE /\ consoleLog' = consoleLog \o <<"attempt_failed", "all_attempts_failed">>
                      /\ textLog' = Append(textLog, "failed")
                      /\ textInFlight' = textInFlight - 1
                      /\ IF TextExhausted = "return_empty"
                         THEN /\ scenePrompts' = <<>>
                              /\ pc' = "scenes_returned"
                         ELSE /\ pc' = "scenes_threw"
                              /\ UNCHANGED scenePrompts
    /\ UNCHANGED << apiKey, comicPanels, isLoading, error, progress, options, runKey,
                    i, imgAttempt, imgInFlight, timers, activeRuns, imgOpen,
                    imgResolved, imgRejected, imgReqs, usedFallback, dismissed, imgFailures >>
    /\ UNCHANGED formVars
    /\ UNCHANGED textVars

\* `await delay(2000)` resolves and the next request is sent
TextDelayElapsed ==
    /\ pc = "text_delay"
    /\ pc' = "text_wait"
    /\ textLog' = textLog \o <<"delay", "request">>
    /\ textInFlight' = textInFlight + 1
    /\ UNCHANGED << apiKey, comicPanels, isLoading, error, progress, options, runKey,
                    scenePrompts, i, attempt, imgAttempt, imgInFlight, timers,
                    activeRuns, lastReply, consoleLog, imgOpen, imgResolved, imgRejected, imgReqs,
                    usedFallback, dismissed, imgFailures >>
    /\ UNCHANGED formVars
    /\ UNCHANGED textVars

\* the handler resumes with the scene list: fallback, setComicPanels, 10%
ScenesReady ==
    /\ pc = "scenes_returned"
    /\ LET fb == NeedsFallback(scenePrompts)
           scenes == IF fb THEN <<FallbackPanel(options)>> ELSE scenePrompts
       IN /\ scenePrompts' = scenes
          /\ usedFallback' = fb
          /\ error' = IF fb THEN <<WarnFallback>> ELSE error
          /\ comicPanels' = InitialPanels(scenes)
          /\ progress' = [step |-> "prompts", num |-> 10, den |-> 1,
                          currentPanel |-> 0, totalPanels |-> Len(scenes)]
    /\ i' = 0
    /\ pc' = "img_loop"
    /\ UNCHANGED << apiKey, isLoading, options, runKey, attempt, imgAttempt,
                    textInFlight, imgInFlight, timers, activeRuns, textLog, lastReply, consoleLog,
                    imgOpen, imgResolved, imgRejected, imgReqs, dismissed, imgFailures >>
    /\ UNCHANGED formVars
    /\ UNCHANGED textVars

\* the outer catch and the finally block
ScenesFailed ==
    /\ pc = "scenes_threw"
    /\ consoleLog' = Append(consoleLog, "comic_generation_failed")
    /\ error' = <<FatalScenes>>
    /\ comicPanels' = <<>>
    /\ progress' = NoProgress
    /\ timers' = timers + 1
    /\ activeRuns' = activeRuns - 1
    /\ pc' = "idle"
    /\ UNCHANGED << apiKey, isLoading, options, runKey, scenePrompts, i, attempt,
                    imgAttempt, textInFlight, imgInFlight, textLog, lastReply, imgOpen, imgResolved, imgRejected,
                    imgReqs, usedFallback, dismissed, imgFailures >>
    /\ UNCHANGED formVars
    /\ UNCHANGED textVars

\* one iteration of the image loop up to its await: progress is published
\* and the image call of the run's service sends its first request
ImgStart ==
    /\ ImgStartEnabled
    /\ LET panel == scenePrompts[i + 1] IN
         /\ progress' = PanelProgress(i, Len(scenePrompts))
         /\ imgReqs' = imgReqs \cup
                {[pos |-> i + 1,
                  prompt |-> SentPrompt(options.generationService, panel.image_prompt),
                  seed |-> RequestSeed(options.generationService),
                  references |-> RequestReferences(options.generationService,
                                                   panel.image_prompt, options.characters)]}
    /\ imgOpen' = imgOpen \cup {i + 1}
    /\ imgAttempt' = 0
    /\ imgInFlight' = imgInFlight + 1
    /\ pc' = "img_wait"
    /\ UNCHANGED << apiKey, comicPanels, isLoading, error, options, runKey, scenePrompts,
                    i, attempt, textInFlight, timers, activeRuns, textLog, lastReply,
                    consoleLog, imgResolved, imgRejected, usedFallback, dismissed, imgFailures >>
    /\ UNCHANGED formVars
    /\ UNCHANGED textVars

\* the image call resolved: the panel's imageUrl is set, next iteration
ImageResolved ==
    /\ comicPanels' = SetImageUrl(comicPanels, scenePrompts[i + 1].scene_number, "image")
    /\ imgResolved' = imgResolved \cup {i + 1}
    /\ UNCHANGED imgRejected
    /\ imgOpen' = imgOpen \ {i + 1}
    /\ imgFailures' = <<>>
    /\ i' = i + 1
    /\ pc' = "img_loop"
    /\ UNCHANGED << error, imgAttempt >>

\* the image call rejected: the inner catch of the loop
ImageRejected ==
    /\ imgRejected' = imgRejected \cup {i + 1}
    /\ UNCHANGED imgResolved
    /\ imgOpen' = imgOpen \ {i + 1}
    /\ imgFailures' = <<>>
    /\ UNCHANGED imgAttempt
    /\ IF OnImageError = "record"
       THEN /\ comicPanels' =
                 SetImageUrl(comicPanels, scenePrompts[i + 1].scene_number, "error")
            /\ error' = AppendError(error, PanelError(scenePrompts[i + 1].scene_number))
            /\ i' = i + 1
            /\ pc' = "img_loop"
       ELSE /\ pc' = "scenes_threw"
            /\ UNCHANGED << comicPanels, error, i >>

\* the backend's answer to the image request in flight: an image, or a
\* failure of one of the classes of ImageFailures
ImageReply(outcome) ==
    /\ pc = "img_wait"
    /\ imgInFlight' = imgInFlight - 1
    /\ IF outcome = "ok"
       THEN ImageResolved
       ELSE IF options.generationService = GEMINI
            THEN IF RetriesImage(outcome, imgAttempt)
                 THEN /\ imgAttempt' = imgAttempt + 1
                      /\ imgFailures' = Append(imgFailures, outcome)
                      /\ pc' = "img_delay"
                      /\ UNCHANGED << comicPanels, error, i, imgOpen, imgResolved, imgRejected >>
                 ELSE ImageRejected
            ELSE ImageRejected
    /\ UNCHANGED << apiKey, isLoading, progress, options, runKey, scenePrompts, attempt,
                    textInFlight, timers, activeRuns, textLog, lastReply, consoleLog, imgReqs,
                    usedFallback, dismissed >>
    /\ UNCHANGED formVars
    /\ UNCHANGED textVars

\* `await delay(2000 * (attempt + 1))` resolves and the request is repeated
ImgDelayElapsed ==
    /\ pc = "img_delay"
    /\ imgReqs' = imgReqs \cup
            {[pos |-> i + 1,
              prompt |-> SentPrompt(options.generationService, scenePrompts[i + 1].image_prompt),
              seed |-> RequestSeed(options.generationService),
              references |-> RequestReferences(options.generationService,
                                               scenePrompts[i + 1].image_prompt,
                                               options.characters)]}
    /\ imgInFlight' = imgInFlight + 1
    /\ pc' = "img_wait"
    /\ UNCHANGED << apiKey, comicPanels, isLoading, error, progress, options, runKey,
                    scenePrompts, i, attempt, imgAttempt, textInFlight, timers,
                    activeRuns, textLog, lastReply, consoleLog, imgOpen, imgResolved, imgRejected, usedFallback,
                    dismissed, imgFailures >>
    /\ UNCHANGED formVars
    /\ UNCHANGED textVars

\* the loop is over: 100% is published and the finally block arms the timer
Complete ==
    /\ pc = "img_loop"
    /\ i >= Len(scenePrompts)
    /\ progress' = [step |-> "complete", num |-> 100, den |-> 1,
                    currentPanel |-> Len(scenePrompts), totalPanels |-> Len(scenePrompts)]
    /\ timers' = timers + 1
    /\ activeRuns' = activeRuns - 1
    /\ pc' = "idle"
    /\ UNCHANGED << apiKey, comicPanels, isLoading, error, options, runKey, scenePrompts,
                    i, attempt, imgAttempt, textInFlight, imgInFlight, textLog, lastReply,
                    consoleLog, imgOpen, imgResolved, imgRejected, imgReqs, usedFallback, dismissed, imgFailures >>
    /\ UNCHANGED formVars
    /\ UNCHANGED textVars

TimerFiresLeavesLoading ==
    /\ timers > 0
    /\ timers' = timers - 1
    /\ UNCHANGED << apiKey, comicPanels, isLoading, error, progress, pc, options, runKey,
                    scenePrompts, i, attempt, imgAttempt, textInFlight,
                    imgInFlight, activeRuns, textLog, lastReply, consoleLog, imgOpen, imgResolved, imgRejected,
                    imgReqs, usedFallback, dismissed, imgFailures >>
    /\ UNCHANGED formVars
    /\ UNCHANGED textVars

\* setTimeout(() => setIsLoading(false), 2000) fires
TimerFires ==
    /\ timers > 0
    /\ timers' = timers - 1
    /\ isLoading' = FALSE
    /\ UNCHANGED << apiKey, comicPanels, error, progress, pc, options, runKey,
                    scenePrompts, i, attempt, imgAttempt, textInFlight,
                    imgInFlight, activeRuns, textLog, lastReply, consoleLog, imgOpen, imgResolved, imgRejected,
                    imgReqs, usedFallback, dismissed, imgFailures >>
    /\ UNCHANGED formVars
    /\ UNCHANGED textVars

----------------------------------------------------------------------------
(* State machine of the character references *)

\* the name input's onChange
SetNewCharName(n) ==
    /\ AddControlsShown
    /\ n # newCharName
    /\ newCharName' = n
    /\ UNCHANGED << characters, reads >>
    /\ UNCHANGED numPages
    /\ UNCHANGED runVars
    /\ UNCHANGED textVars

\* handleCharImageUpload for a picked file: after its checks a read of the
\* file is started, whose handlers keep the name of this render
CharImageUpload(file) ==
    /\ AddControlsShown
    /\ PendingReads(reads) < MaxReads
    /\ IF UploadAccepted(file)
       THEN reads' = [reads EXCEPT ![Trim(newCharName)] = @ + 1]
       ELSE UNCHANGED reads
    /\ UNCHANGED << characters, newCharName >>
    /\ UNCHANGED numPages
    /\ UNCHANGED runVars
    /\ UNCHANGED textVars

\* reader.onload of a read started for the name n; hasResult is whether
\* loadEvent.target.result is set
FileLoaded(n, hasResult) ==
    /\ reads[n] > 0
    /\ reads' = [reads EXCEPT ![n] = @ - 1]
    /\ IF hasResult
       THEN /\ characters' = Append(characters, n)
            /\ newCharName' = ""
       ELSE UNCHANGED << characters, newCharName >>
    /\ UNCHANGED numPages
    /\ UNCHANGED runVars
    /\ UNCHANGED textVars

\* reader.onerror of a read started for the name n
FileReadError(n) ==
    /\ reads[n] > 0
    /\ reads' = [reads EXCEPT ![n] = @ - 1]
    /\ UNCHANGED << characters, newCharName >>
    /\ UNCHANGED numPages
    /\ UNCHANGED runVars
    /\ UNCHANGED textVars

\* the number-of-pages input's onChange
SetNumPages(str) ==
    /\ numPages' = ClampPages(str)
    /\ numPages' # numPages
    /\ UNCHANGED << characters, newCharName, reads >>
    /\ UNCHANGED runVars
    /\ UNCHANGED textVars

\* handleRemoveCharacter for the id of the entry at position k
RemoveCharacter(k) ==
    /\ k \in 1..Len(characters)
    /\ characters' = [j \in 1..(Len(characters) - 1) |->
                         IF j < k THEN characters[j] ELSE characters[j + 1]]
    /\ UNCHANGED << newCharName, reads >>
    /\ UNCHANGED numPages
    /\ UNCHANGED runVars
    /\ UNCHANGED textVars

\* the options handleSubmit passes to onSubmit for the service selected
FormOptions(svc) ==
    [generationService |-> svc, includeCaptions |-> TRUE,
     characters |-> Len(characters), lockSeed |-> FALSE, numPages |-> numPages]

\* handleSubmit of the form with a story entered: onSubmit starts the run
FormSubmit(svc) == Submit(FormOptions(svc))

\* no run has been submitted from the form yet
BeforeSubmit == ~isLoading /\ pc = "idle"

\* the form up to its first submit: the steps of the character references
\* do not read the state of the run, and after the submit they go on as before
FormNext ==
    \/ BeforeSubmit /\ \E n \in NameInputs : SetNewCharName(n)
    \/ BeforeSubmit /\ \E file \in FileKinds : CharImageUpload(file)
    \/ BeforeSubmit /\ \E n \in CharNames, hasResult \in BOOLEAN : FileLoaded(n, hasResult)
    \/ BeforeSubmit /\ \E n \in CharNames : FileReadError(n)
    \/ BeforeSubmit /\ \E k \in 1..(maxCharacters + MaxReads) : RemoveCharacter(k)
    \/ \E svc \in Services : FormSubmit(svc)

FormSpec == Init /\ [][FormNext]_vars

\* scene acquisition alone, answered with scene records of every caption and
\* dialogues content
ScenesNext ==
    \/ \E k \in ApiKeys : SetApiKey(k)
    \/ \E opts \in OptionSets : Submit(opts)
    \/ \E reply \in Replies \cup CaptionedReplies : GeminiTextReply(reply)
    \/ \E reply \in Replies \cup CaptionedReplies : PollinationsTextReply(reply)
    \/ TextDelayElapsed

ScenesSpec == Init /\ [][ScenesNext]_vars

\* scene records whose prompt names characters, in either case
CastRecords ==
    [scene_number : {0}, image_prompt : {<<"Zoe", "waves", "at", "Mark">>, <<"ZOE", "sleeps">>},
     caption : {"cap"}, dialogues : {<<"d">>}, dialoguesIsArray : {TRUE}, isNull : {FALSE}]

CastReplies ==
    { [kind |-> k, scenes |-> <<>>] : k \in FailureKinds }
    \cup { [kind |-> "array", scenes |-> s] :
             s \in UNION { [1..n -> CastRecords] : n \in 1..MaxScenes } }

\* the requests with the three references Zoe, Mark and Ilsa
CastOptions ==
    [generationService : Services, includeCaptions : {TRUE}, characters : {3},
     lockSeed : {FALSE}, numPages : {DEFAULT_NUM_PAGES}]

\* the program for requests with character references, answered with scenes
\* that name them
CastNext ==
    \/ \E k \in ApiKeys : SetApiKey(k)
    \/ Dismiss
    \/ \E opts \in CastOptions : Submit(opts)
    \/ \E reply \in CastReplies : GeminiTextReply(reply)
    \/ \E reply \in CastReplies : PollinationsTextReply(reply)
    \/ TextDelayElapsed
    \/ ScenesReady
    \/ ScenesFailed
    \/ ImgStart
    \/ \E outcome \in BasicOutcomes : ImageReply(outcome)
    \/ ImgDelayElapsed
    \/ Complete
    \/ TimerFires

CastSpec == Init /\ [][CastNext]_vars

\* the number-of-pages input and the submit of the form, with scene
\* acquisition
PagesNext ==
    \/ \E str \in PageEntries : SetNumPages(str)
    \/ \E k \in ApiKeys : SetApiKey(k)
    \/ \E svc \in Services : FormSubmit(svc)
    \/ \E reply \in Replies : GeminiTextReply(reply)
    \/ \E reply \in Replies : PollinationsTextReply(reply)
    \/ TextDelayElapsed

PagesSpec == Init /\ [][PagesNext]_vars

\* a backend's answer arrives as text
TextArrives(r) ==
    /\ responseText' = r
    /\ parsedJson' = NotParsed
    /\ UNCHANGED runVars
    /\ UNCHANGED formVars

\* the variant extracts the JSON of the answer and parses it
ExtractsJson ==
    /\ responseText # NoText
    /\ parsedJson = NotParsed
    /\ parsedJson' = ExtractAndParse(TextOf(responseText))
    /\ UNCHANGED responseText
    /\ UNCHANGED runVars
    /\ UNCHANGED formVars

ExtractNext ==
    \/ \E r \in Answers : TextArrives(r)
    \/ ExtractsJson

\* extraction alone, on answers of every prose around a JSON array
ExtractSpec == Init /\ [][ExtractNext]_vars

----------------------------------------------------------------------------
(* Specifications of the run *)

\* the steps of the program for the requests of optionSets and the image
\* backend answers of outcomes
NextOver(optionSets, outcomes) ==
    \/ \E k \in ApiKeys : SetApiKey(k)
    \/ Dismiss
    \/ \E opts \in optionSets : Submit(opts)
    \/ \E reply \in Replies : GeminiTextReply(reply)
    \/ \E reply \in Replies : PollinationsTextReply(reply)
    \/ TextDelayElapsed
    \/ ScenesReady
    \/ ScenesFailed
    \/ ImgStart
    \/ \E outcome \in outcomes : ImageReply(outcome)
    \/ ImgDelayElapsed
    \/ Complete
    \/ TimerFires

\* the program as driven through the form, for the requests of OptionSets,
\* every failure of the image backend being an internal server error
Next == NextOver(OptionSets, BasicOutcomes)

Spec == Init /\ [][Next]_vars

\* every request is answered, every delay and timer elapses, and the handler
\* resumes whenever the promise it awaits has settled
RunSteps ==
    \/ \E reply \in Replies : GeminiTextReply(reply)
    \/ \E reply \in Replies : PollinationsTextReply(reply)
    \/ TextDelayElapsed
    \/ ScenesReady
    \/ ScenesFailed
    \/ ImgStart
    \/ \E outcome \in BasicOutcomes : ImageReply(outcome)
    \/ ImgDelayElapsed
    \/ Complete
    \/ TimerFires

FairSpec == Spec /\ WF_vars(RunSteps)

\* the program for every request, character references and lockSeed included
SeedNext == NextOver(AllOptionSets, BasicOutcomes)

SeedSpec == Init /\ [][SeedNext]_vars

\* the program for every class of failure of the image backend
RetryNext == NextOver(OptionSets, ImageOutcomes)

RetrySpec == Init /\ [][RetryNext]_vars

\* the program with handleComicGeneration also called for requests the form
\* would have stopped for their missing API key
KeyNext ==
    \/ Next
    \/ \E opts \in OptionSets : SubmitRejected(opts)

KeySpec == Init /\ [][KeyNext]_vars

\* KeySpec with every request answered and every timer firing
KeyFairSpec == KeySpec /\ WF_vars(RunSteps)

----------------------------------------------------------------------------
(* Properties *)

Range(seq) == { seq[k] : k \in 1..Len(seq) }

Count(seq, x) == Cardinality({ k \in 1..Len(seq) : seq[k] = x })

\* the handler is inside scene acquisition
InSceneAcquisition == pc \in {"text_wait", "text_delay", "scenes_returned", "scenes_threw"}

\* the service call of scene acquisition has not returned
InTextCall == pc \in {"text_wait", "text_delay"}

InImagePhase == pc \in {"img_loop", "img_wait", "img_delay"}

IsPollinationsRun == options.generationService = POLLINATIONS

IsGeminiRun == options.generationService = GEMINI

\* a reply of one of the failing shapes: non-OK status or transport error,
\* no extractable JSON, unparseable JSON, a non-array value, an empty array
FailingShape(r) ==
    \/ r.kind \in FailureKinds
    \/ r.kind = "array" /\ r.len = 0

\* a reply from which the structured variant gets at least one scene
GoodGeminiShape(r) == r.kind \in {"array", "wrapped"} /\ r.len > 0 /\ ~r.hasNull

\* the positions whose image call has resolved or rejected
imgSettled == imgResolved \cup imgRejected

AllTerminal == \A k \in 1..Len(comicPanels) : comicPanels[k].imageUrl \in {"image", "error"}

\* C1: the free-text variant never throws: a failing reply is a failed
\* attempt, after the last failed attempt the call has returned, and a call
\* all of whose attempts failed returned the empty array
C1_ExhaustionReturnsEmpty ==
    (IsPollinationsRun /\ InSceneAcquisition) =>
        /\ pc # "scenes_threw"
        /\ (textLog # <<>> /\ FailingShape(lastReply) /\ lastReply.kind # "none")
              => "ok" \notin Range(textLog)
        /\ InTextCall => Count(textLog, "failed") <= 2
        /\ (pc = "scenes_returned" /\ "ok" \notin Range(textLog))
              => scenePrompts = <<>> /\ Count(textLog, "failed") = 3

C1_Witness ==
    /\ IsPollinationsRun
    /\ pc = "scenes_returned"
    /\ Count(textLog, "failed") = 3
    /\ lastReply.kind = "bad_json"
    /\ scenePrompts = <<>>

\* C2: the step that fixes the panel list synthesizes the fallback panel if
\* and only if the run uses the free-text variant and it returned no scene;
\* a run of the structured variant never has the fallback panel
C2_FallbackTrigger ==
    /\ [][(pc = "scenes_returned" /\ pc' # "scenes_returned") =>
            /\ usedFallback' <=> (IsPollinationsRun /\ Len(scenePrompts) = 0)
            /\ usedFallback' <=> (comicPanels' = InitialPanels(<<FallbackPanel(options)>>))]_vars
    /\ [](IsGeminiRun => ~usedFallback)

C2_Witness ==
    /\ IsPollinationsRun
    /\ usedFallback
    /\ pc = "img_wait"
    /\ Len(comicPanels) = 1

\* C3: a failing reply makes the structured variant throw, and the handler
\* then ends the run with no panel, no progress and an error message, having
\* synthesized no fallback panel and sent no image request
C3_StructuredFailureFatal ==
    /\ []((IsGeminiRun /\ pc = "scenes_returned") => GoodGeminiShape(lastReply))
    /\ []((IsGeminiRun /\ InSceneAcquisition /\ lastReply.kind # "none"
              /\ ~GoodGeminiShape(lastReply)) => pc = "scenes_threw")
    /\ [][(IsGeminiRun /\ pc = "scenes_threw" /\ pc' # "scenes_threw") =>
            /\ pc' = "idle"
            /\ comicPanels' = <<>>
            /\ progress' = NoProgress
            /\ error' # <<>>
            /\ ~usedFallback'
            /\ imgReqs' = {}
            /\ imgInFlight' = 0]_vars

C3_Witness ==
    /\ IsGeminiRun
    /\ pc = "idle"
    /\ timers = 1
    /\ lastReply.kind = "array" /\ lastReply.len = 0
    /\ error = <<FatalScenes>>
    /\ comicPanels = <<>>

\* C4: whatever the image calls answer, the image phase is left only by
\* completing, the panel list keeps its length, at completion every panel
\* has an image or the error sentinel and every panel's call was made, and
\* the image phase leads to completion
C4_PanelFailureTolerance ==
    /\ [](InImagePhase => Len(comicPanels) = Len(scenePrompts) /\ Len(comicPanels) > 0)
    /\ [][InImagePhase => (InImagePhase' \/ progress'.step = "complete")]_vars
    /\ [](progress.step = "complete" =>
            /\ progress.num = 100 * progress.den
            /\ Len(comicPanels) > 0
            /\ AllTerminal
            /\ imgSettled = 1..Len(comicPanels))
    /\ InImagePhase ~> (progress.step = "complete")

C4_Witness ==
    /\ progress.step = "complete"
    /\ Len(comicPanels) = 2
    /\ comicPanels[1].imageUrl = "error"
    /\ comicPanels[2].imageUrl = "image"

\* C5: at most one image request is in flight and at most one image call is
\* open, and a panel's call is opened only after the call of every earlier
\* position has settled
C5_SequentialImages ==
    /\ imgInFlight <= 1
    /\ Cardinality(imgOpen) <= 1
    /\ imgInFlight = 1 => imgOpen = {i + 1}
    /\ \A p \in imgOpen \cup imgSettled : \A q \in 1..(p - 1) : q \in imgSettled
    /\ imgOpen \cap imgSettled = {}

C5_Witness ==
    /\ imgInFlight = 1
    /\ imgOpen = {2}
    /\ imgSettled = {1}
    /\ imgAttempt = 1

\* C6: at most one handler is running, isLoading holds exactly from the
\* submit until the timer of the finally block fires, and a submit is
\* accepted only while isLoading is false
C6_SingleActiveRun ==
    /\ [](activeRuns + timers <= 1)
    /\ [](isLoading <=> (activeRuns + timers = 1))
    /\ []((activeRuns = 1) <=> (pc # "idle"))
    /\ [][activeRuns' > activeRuns => (~isLoading /\ activeRuns = 0 /\ timers = 0)]_vars

C6_Witness ==
    /\ isLoading
    /\ activeRuns = 0
    /\ timers = 1
    /\ progress.step = "complete"

\* C7: the free-text variant sends at most 3 requests, the first without a
\* delay, each later one right after a delay that follows a failed attempt,
\* and none after a success
C7_RetryBudget ==
    IsPollinationsRun =>
        /\ Count(textLog, "request") <= 3
        /\ textInFlight <= 1
        /\ textLog # <<>> => textLog[1] = "request"
        /\ \A k \in 2..Len(textLog) :
              /\ textLog[k] = "request" => (k > 2 /\ textLog[k - 1] = "delay"
                                                  /\ textLog[k - 2] = "failed")
              /\ textLog[k] = "delay" => textLog[k - 1] = "failed"
              /\ textLog[k - 1] = "ok" => FALSE

C7_Witness ==
    /\ IsPollinationsRun
    /\ textLog = <<"request", "failed", "delay", "request", "failed", "delay", "request", "ok">>

\* the scene acquisition of the run failed twice and then got an array of 2
RecoveredOnThird ==
    /\ IsPollinationsRun
    /\ options.includeCaptions
    /\ textLog = <<"request", "failed", "delay", "request", "failed", "delay", "request", "ok">>
    /\ lastReply = [kind |-> "array", len |-> 2, hasNull |-> FALSE]

\* every panel's image call was made and resolved
AllImagesSucceeded == imgResolved = 1..Len(comicPanels) /\ imgRejected = {}

\* C8: a free-text run whose first two attempts fail and whose third gets a
\* 2-element array reaches completion, and when it completes with both
\* image calls resolved it has exactly 2 panels, an empty error state, and
\* the two failures in the console only
C8_RecoveryOnThirdAttempt ==
    /\ []((RecoveredOnThird /\ ~InSceneAcquisition) =>
            /\ Len(comicPanels) = 2
            /\ ~usedFallback
            /\ consoleLog = <<"attempt_failed", "attempt_failed">>)
    /\ []((RecoveredOnThird /\ progress.step = "complete" /\ AllImagesSucceeded) =>
            error = <<>>)
    /\ (RecoveredOnThird /\ pc = "scenes_returned") ~> (progress.step = "complete")

C8_Witness ==
    /\ RecoveredOnThird
    /\ progress.step = "complete"
    /\ AllImagesSucceeded
    /\ Len(comicPanels) = 2
    /\ error = <<>>

\* the free-text variant of the run failed all of its attempts
AllAttemptsFailed ==
    /\ IsPollinationsRun
    /\ Count(textLog, "failed") = 3
    /\ "ok" \notin Range(textLog)

IsFallbackPanelList(panels) ==
    /\ Len(panels) = 1
    /\ panels[1].scene_number = 1
    /\ panels[1].caption = FallbackCaption
    /\ Len(panels[1].dialogues) = 1
    /\ Len(panels[1].image_prompt) >= 2
    /\ Head(panels[1].image_prompt) = STORY
    /\ panels[1].image_prompt[Len(panels[1].image_prompt)] = StyleSuffix

\* the step that completes a run whose scene acquisition failed throughout
CompletesAfterExhaustion == AllAttemptsFailed /\ pc = "img_loop" /\ progress'.step = "complete"

\* C9 as stated: the run completes with the fallback panel and the warning
\* is in the error state at the step that completes the run
C9_Original_WarningAtCompletion ==
    [][CompletesAfterExhaustion =>
          (IsFallbackPanelList(comicPanels') /\ WarnFallback \in Range(error'))]_vars

\* C9 as amended: the run completes with the fallback panel, and unless the
\* user dismissed the message during the run the warning is the first line
\* of the error state at the step that completes the run
C9_FallbackRunCompletes ==
    /\ [][CompletesAfterExhaustion =>
            /\ IsFallbackPanelList(comicPanels')
            /\ AllTerminal'
            /\ ~dismissed' => (error' # <<>> /\ Head(error') = WarnFallback)]_vars
    /\ [](AllAttemptsFailed /\ InImagePhase => IsFallbackPanelList(comicPanels))
    /\ (AllAttemptsFailed /\ pc = "scenes_returned") ~> (progress.step = "complete")

C9_Witness ==
    /\ AllAttemptsFailed
    /\ progress.step = "complete"
    /\ IsFallbackPanelList(comicPanels)
    /\ ~dismissed
    /\ error = <<WarnFallback, PanelError(1)>>

\* the run's panel list is the scene list
PanelListFixed ==
    /\ Len(comicPanels) = Len(scenePrompts)
    /\ Len(comicPanels) > 0
    /\ \A k \in 1..Len(comicPanels) :
          [comicPanels[k] EXCEPT !.imageUrl = "undefined"] = InitialPanels(scenePrompts)[k]

\* C10: while scene acquisition is in progress no image call is open and no
\* image request was sent or is in flight; whenever there is one, the text
\* backend is idle and the panel list is fixed
C10_NoSpeculativeImages ==
    /\ InSceneAcquisition => (imgInFlight = 0 /\ imgOpen = {} /\ imgReqs = {})
    /\ (imgInFlight > 0 \/ imgOpen # {} \/ imgReqs # {}) =>
          (textInFlight = 0 /\ PanelListFixed)

C10_Witness ==
    /\ imgInFlight = 1
    /\ Cardinality(imgReqs) = 1
    /\ Len(comicPanels) = 2
    /\ Count(textLog, "failed") = 1

----------------------------------------------------------------------------
(* Scene numbers, processing order, error log *)

\* the positions whose image call was opened
imgVisited == imgOpen \cup imgSettled

\* the run's panel list came from normalization, not from the fallback
NormalizedRun == InImagePhase /\ ~usedFallback

DistinctSceneNumbers(panels) ==
    \A p, q \in 1..Len(panels) :
        p # q => panels[p].scene_number # panels[q].scene_number

\* C11: the panels normalization returned have pairwise distinct positive
\* scene numbers, defaulted numbers included
C11_SceneNumbersUnique ==
    NormalizedRun =>
        /\ \A k \in 1..Len(scenePrompts) : scenePrompts[k].scene_number >= 1
        /\ DistinctSceneNumbers(scenePrompts)

\* C12: the image loop opens the panels' calls in ascending scene_number
\* order: no visited panel has a larger scene number than one visited later
C12_AscendingVisitOrder ==
    \A p, q \in imgVisited :
        p < q => scenePrompts[p].scene_number <= scenePrompts[q].scene_number

PanelErrorLines(log) == { k \in 1..Len(log) : log[k].t = "panel_error" }

ErrorPanels(panels) == { k \in 1..Len(panels) : panels[k].imageUrl = "error" }

\* a step of the image loop that records a failed image call
RecordsImageFailure == pc = "img_wait" /\ imgRejected' # imgRejected

\* the step that completes a run
CompletesRun == pc = "img_loop" /\ progress'.step = "complete"

\* C13: a failed image call appends one line naming its panel after the
\* lines the log holds, and a run the user did not dismiss a message of
\* completes with as many panel lines as panels showing the error sentinel
C13_ErrorLogAccumulation ==
    /\ [][RecordsImageFailure =>
            error' = Append(error, PanelError(scenePrompts[i + 1].scene_number))]_vars
    /\ [][(CompletesRun /\ ~dismissed') =>
            Cardinality(PanelErrorLines(error')) = Cardinality(ErrorPanels(comicPanels'))]_vars

----------------------------------------------------------------------------
(* Progress *)

Published(pr) == pr.step # "undefined"

\* the percentage num / den of a lies at or below that of b
PercentLeq(a, b) == a.num * b.den <= b.num * a.den

PercentInRange(pr) == 0 <= pr.num /\ pr.num <= 100 * pr.den /\ pr.den >= 1

CurrentPanelInRange(pr) ==
    pr.currentPanel # 0 => (1 <= pr.currentPanel /\ pr.currentPanel <= pr.totalPanels)

\* the values the loop publishes for n panels, from the 10% before the loop
\* to the 100% after it
LoopProgressMonotone(n) ==
    /\ \A k \in 0..(n - 1) :
          /\ PercentInRange(PanelProgress(k, n))
          /\ CurrentPanelInRange(PanelProgress(k, n))
          /\ PanelProgress(k, n).currentPanel = k + 1
          /\ 10 * PanelProgress(k, n).den <= PanelProgress(k, n).num
    /\ \A k \in 0..(n - 2) : PercentLeq(PanelProgress(k, n), PanelProgress(k + 1, n))
    /\ PanelProgress(n - 1, n).num = 100 * PanelProgress(n - 1, n).den

\* C14: every published progress has a percentage in 0..100 and, where it
\* has one, a currentPanel in 1..totalPanels; within a run a newly published
\* percentage is never below the one it replaces; and the loop's values are
\* in range and non-decreasing for every panel count up to MaxPanelCount
C14_ProgressMonotone ==
    /\ [](Published(progress) => (PercentInRange(progress) /\ CurrentPanelInRange(progress)))
    /\ [][(pc # "idle" /\ Published(progress) /\ Published(progress'))
            => PercentLeq(progress, progress')]_vars
    /\ [](\A n \in 1..MaxPanelCount : LoopProgressMonotone(n))

C14_Witness ==
    /\ progress.step = "panel"
    /\ progress.currentPanel = 2
    /\ progress.totalPanels = 2
    /\ progress.num = 100 * progress.den
    /\ pc = "img_wait"

----------------------------------------------------------------------------
(* Preconditions of a submit *)

\* a step in which the handler sets the missing-key message
RejectsSubmit == error' # error /\ error' # <<>> /\ Head(error') = KeyRequired

StartsRun == activeRuns' > activeRuns

\* C15: no run of the Gemini service starts while the API key is empty or
\* whitespace, and the step that rejects such a submit sets the message and
\* nothing else: no request is sent or in flight, isLoading stays false, the
\* panel list and the progress stay as they were
C15_KeyPreconditionRejects ==
    /\ [][(StartsRun /\ options'.generationService = GEMINI) => Trim(apiKey) # ""]_vars
    /\ [][RejectsSubmit =>
            /\ Trim(apiKey) = ""
            /\ error' = <<KeyRequired>>
            /\ ~isLoading /\ ~isLoading'
            /\ textInFlight' = 0 /\ imgInFlight' = 0
            /\ UNCHANGED << comicPanels, progress, pc, activeRuns, timers, textLog, imgReqs >>]_vars

C15_Witness ==
    /\ error = <<KeyRequired>>
    /\ apiKey = " "
    /\ ~isLoading
    /\ Len(comicPanels) = 2
    /\ progress.step = "complete"

----------------------------------------------------------------------------
(* Image retry policy *)

Last(seq) == seq[Len(seq)]

\* the failures the retry policy calls transient
TransientFailures == {"rate_limit", "server_error"}

\* base delay 2000 ms doubled on each retry after the first
DoublingDelay(retry) == 2000 * 2 ^ (retry - 1)

\* C16: generateImageForPrompt waits for a retry only after a transient
\* failure, makes at most 2 retries per panel, and waits the doubling delay
C16_TransientOnlyRetry ==
    (IsGeminiRun /\ pc = "img_delay") =>
        /\ Last(imgFailures) \in TransientFailures
        /\ imgAttempt <= 2
        /\ ImgRetryDelay(imgAttempt - 1) = DoublingDelay(imgAttempt)

----------------------------------------------------------------------------
(* Seed pinning *)

\* the run's request has a character reference or has lockSeed set
SeedPinnedRun == options.characters >= 1 \/ options.lockSeed

\* C17: in a run with a character reference or with lockSeed set, every
\* image request sent, for any panel and on either backend, retries
\* included, carries the seed FIXED_IMAGE_SEED
C17_SeedPinned ==
    SeedPinnedRun => \A r \in imgReqs : r.seed = <<FIXED_IMAGE_SEED>>

C17_Witness ==
    /\ IsPollinationsRun
    /\ options.characters = 1
    /\ ~options.lockSeed
    /\ { r.pos : r \in imgReqs } = {1, 2}
    /\ \A r \in imgReqs : r.seed = <<FIXED_IMAGE_SEED>>

----------------------------------------------------------------------------
(* Character references *)

\* C18: no two character references have names equal ignoring case
C18_NamesUniqueIgnoringCase ==
    \A p, q \in 1..Len(characters) :
        p # q => ToLowerCase(characters[p]) # ToLowerCase(characters[q])

\* C19: the list holds at most five character references, and the request
\* of a submitted run carries at most five
C19_AtMostFiveCharacters ==
    /\ Len(characters) <= 5
    /\ options.characters \in 0..5

\* the scene list a variant of generateScenePrompts has just returned
NormalizedScenes ==
    IF pc = "scenes_returned" /\ Last(textLog) = "ok" THEN scenePrompts ELSE <<>>

\* C20: with includeCaptions false every panel that normalization produces, in
\* both variants, has caption null and dialogues empty, whatever the raw
\* records hold
C20_CaptionsSuppressed ==
    ~options.includeCaptions =>
        \A k \in 1..Len(NormalizedScenes) :
            /\ NormalizedScenes[k].caption = Null
            /\ NormalizedScenes[k].dialogues = <<>>

C20_Witness ==
    /\ ~options.includeCaptions
    /\ options.generationService = GEMINI
    /\ Len(NormalizedScenes) = MaxScenes

\* what the variant of the running handler makes of a reply to its request
SceneAttempt(reply) ==
    IF options.generationService = GEMINI
    THEN GeminiScenes(reply, options)
    ELSE PollinationsAttempt(reply, options)

\* the number normalization gives the record at position k (from 1)
ExpectedNumber(raw, k) == IF raw.scene_number # 0 THEN raw.scene_number ELSE k

\* C21: whatever reply answers the request that is in flight, the panels made
\* of its N records are N panels in the order of the records, each numbered
\* with its record's scene_number where that is present and truthy and with
\* its position (from 1) where it is not; records numbered 1..N keep their
\* numbers
C21_SceneNumbering ==
    pc = "text_wait" =>
        \A reply \in Replies \cup CaptionedReplies :
            LET out == SceneAttempt(reply) IN
            out.ok =>
                /\ Len(out.panels) = Len(reply.scenes)
                /\ Len(out.panels) >= 1
                /\ \A k \in 1..Len(out.panels) :
                       out.panels[k].scene_number = ExpectedNumber(reply.scenes[k], k)
                /\ (\A k \in 1..Len(reply.scenes) : reply.scenes[k].scene_number = k)
                       => \A k \in 1..Len(out.panels) : out.panels[k].scene_number = k

\* a list has been returned whose first panel kept a number that is not its
\* position and whose second panel is numbered like it
C21_Witness ==
    /\ Len(NormalizedScenes) = 2
    /\ NormalizedScenes[1].scene_number = 2
    /\ NormalizedScenes[2].scene_number = 2
    /\ options.generationService = POLLINATIONS

\* a PanelDescriptor read as a raw scene record: its dialogues is an array
AsRawRecord(panel) ==
    [scene_number |-> panel.scene_number, image_prompt |-> panel.image_prompt,
     caption |-> panel.caption, dialogues |-> panel.dialogues,
     dialoguesIsArray |-> TRUE, isNull |-> FALSE]

\* the map body of the variant of the running handler
VariantPanel(raw, index) ==
    IF options.generationService = GEMINI
    THEN GeminiPanel(raw, index, options)
    ELSE PollinationsPanel(raw, index, options)

Renormalized(panels) ==
    [k \in 1..Len(panels) |-> VariantPanel(AsRawRecord(panels[k]), k)]

\* C22: whatever reply answers the request in flight, normalizing the panels
\* made of it once more, with the same options, gives the same panels, in the
\* structured and in the free-text variant
C22_NormalizationIdempotent ==
    pc = "text_wait" =>
        \A reply \in Replies \cup CaptionedReplies :
            LET out == SceneAttempt(reply) IN
            out.ok => Renormalized(out.panels) = out.panels

----------------------------------------------------------------------------
(* JSON extraction *)

\* C23: extraction and parsing of an answer written around a well-formed JSON
\* array, whatever the prose before and after it and fenced or not, gives
\* exactly that array; of an empty text or a text without an opening bracket
\* or brace they give null and do not throw
C23_ExtractionRecoversArray ==
    parsedJson # NotParsed =>
        IF responseText.json # <<>>
        THEN parsedJson = [t |-> "parsed", value |-> responseText.json]
        ELSE parsedJson.t = "null"

----------------------------------------------------------------------------
(* Number of pages *)

\* C24: the number of pages of the form, and of every request submitted, is
\* in 1..MAX_COMIC_PAGES, before and after any request is sent; an entry of
\* 0, a negative number, text that is no number or a number above
\* MAX_COMIC_PAGES is clamped into the range
C24_NumPagesClamped ==
    /\ numPages \in 1..MAX_COMIC_PAGES
    /\ options # NoOptions => options.numPages \in 1..MAX_COMIC_PAGES
    /\ \A str \in PageEntries : ClampPages(str) \in 1..MAX_COMIC_PAGES
    /\ ClampPages("0") = 1 /\ ClampPages("-3") = 1 /\ ClampPages("abc") = 1
    /\ ClampPages("201") = MAX_COMIC_PAGES

\* a request is in flight for a run submitted with the number clamped from
\* above (no entry of PageEntries is MAX_COMIC_PAGES itself)
C24_Witness ==
    /\ options.numPages = MAX_COMIC_PAGES
    /\ textInFlight > 0

----------------------------------------------------------------------------
(* Character relevance *)

\* the prompt holds the name, ignoring case
Mentions(prompt, name) ==
    \E k \in 1..Len(prompt) : ToLowerCase(prompt[k]) = ToLowerCase(name)

RelevantTo(prompt, n) == { c \in ReferenceNames(n) : Mentions(prompt, c) }

\* C25: the image request of a panel carries the character references whose
\* name the panel's prompt holds ignoring case, and no other; of Zoe, Mark and
\* Ilsa the request for "Zoe waves at Mark" carries Zoe and Mark and not Ilsa
C25_RelevantReferencesOnly ==
    /\ RelevantTo(<<"Zoe", "waves", "at", "Mark">>, 3) = {"Zoe", "Mark"}
    /\ \A r \in imgReqs : r.references = RelevantTo(r.prompt, options.characters)

----------------------------------------------------------------------------
(* The panel list during image generation *)

\* a panel list without the imageUrl of its panels
Descriptors(panels) ==
    [k \in 1..Len(panels) |->
        [scene_number |-> panels[k].scene_number, image_prompt |-> panels[k].image_prompt,
         caption |-> panels[k].caption, dialogues |-> panels[k].dialogues]]

\* the run is in its image loop: the panel list has been created
InImageLoop == pc \in {"img_loop", "img_wait", "img_delay"}

\* C26: from the creation of the run's panel list to the end of the run, the
\* list keeps its length and order and every panel keeps its scene_number,
\* image_prompt, caption and dialogues, which are those of the normalized
\* scenes; the steps of image generation write imageUrl only
C26_PanelsImmutable ==
    /\ [][InImageLoop => Descriptors(comicPanels') = Descriptors(comicPanels)]_vars
    /\ [](InImageLoop => Descriptors(comicPanels) = scenePrompts)

\* the first of two panels has its image, the second has none yet
C26_Witness ==
    /\ pc = "img_loop"
    /\ Len(comicPanels) = 2
    /\ comicPanels[1].imageUrl = "image"
    /\ comicPanels[2].imageUrl = "undefined"

----------------------------------------------------------------------------
(* Augmentation of the image prompt *)

RECURSIVE StyleTexts(_)
\* how many times a prompt holds the style and era text
StyleTexts(prompt) ==
    IF prompt = <<>> THEN 0
    ELSE (IF Head(prompt) \in {StyleSuffix, CinematicSuffix} THEN 1 ELSE 0)
         + StyleTexts(Tail(prompt))

\* C27: the prompt of every image request holds the style and era text
\* exactly once, for structured scenes, free-text scenes and the fallback
\* panel, with either image backend
C27_AugmentedOnce ==
    \A r \in imgReqs : StyleTexts(r.prompt) = 1

\* image requests have been sent for the fallback panel
C27_Witness ==
    /\ usedFallback
    /\ \E r \in imgReqs : r.prompt[1] = STORY

----------------------------------------------------------------------------
(* Reply shapes *)

\* non-empty arrays of scene records
RecordArrays == UNION { [1..n -> RawRecords] : n \in 1..MaxScenes }

\* C28: whatever the variant of the run, a reply that parses to a non-empty
\* array of scene records and a reply that parses to an object holding that
\* array under "scenes" are both accepted and give the same panels; a reply
\* that parses to anything else gives no panels
C28_AcceptedShapes ==
    pc = "text_wait" =>
        /\ \A s \in RecordArrays :
              LET bare == SceneAttempt([kind |-> "array", scenes |-> s])
                  wrapped == SceneAttempt([kind |-> "wrapped", scenes |-> s])
              IN /\ bare.ok
                 /\ wrapped.ok
                 /\ wrapped.panels = bare.panels
        /\ LET other == SceneAttempt([kind |-> "non_array", scenes |-> <<>>])
           IN ~other.ok /\ other.panels = <<>>

----------------------------------------------------------------------------
(* Isolation of image outcomes *)

\* the step applies the outcome of the image call of the panel at position i + 1
AppliesOutcome == pc = "img_wait" /\ pc' = "img_loop" /\ i' = i + 1

\* C29: the step that applies the image outcome of the panel at one position
\* leaves the imageUrl of the panels at all other positions as it was
C29_OutcomeIsolation ==
    [][AppliesOutcome =>
          \A k \in 1..Len(comicPanels) :
              k # i + 1 => comicPanels'[k].imageUrl = comicPanels[k].imageUrl]_vars

----------------------------------------------------------------------------
(* Return to idle *)

\* a submit of a service whose key is not missing would be accepted
AcceptsSubmit == ~isLoading /\ ~isSubmitDisabled(POLLINATIONS)

\* C30: with every request answered, a run that has started comes to a state
\* where isLoading is false and a submit is accepted again, whether it
\* completed, fell back or failed fatally; the step that rejects a submit for
\* its missing key leaves isLoading false
C30_ReturnsToIdle ==
    /\ isLoading ~> (AcceptsSubmit /\ pc = "idle" /\ activeRuns = 0)
    /\ [][RejectsSubmit => ~isLoading /\ ~isLoading']_vars

\* a run that fell back has completed and its timer has fired
C30_Witness ==
    /\ ~isLoading
    /\ timers = 0
    /\ usedFallback
    /\ progress.step = "complete"

====
